---- MODULE Spec2Model ----
(***************************************************************************)
(* Model of the BulletinGenerator scripts (src/main.py, src/main2.py,      *)
(* src/main3.py, src/main4.py): four revisions of one program that turns   *)
(* song-lyric documents into text boxes on the halves of bulletin slides.  *)
(*                                                                         *)
(* rev = 1 is main.py, rev = 2 is main2.py, rev = 3 is main3.py and        *)
(* rev = 4 is main4.py.  Texts are TLA+ strings handled character by       *)
(* character, with Python's str semantics.  Python's True / False / None   *)
(* are the strings "True" / "False" / "None".  Lengths are EMU, as in      *)
(* python-pptx (914400 EMU to the inch).                                   *)
(***************************************************************************)
EXTENDS Integers, Sequences, FiniteSets, TLC

VARIABLES
    rev,        \* which revision of the script runs (1..4)
    \* ---- one song: document -> extract_text_and_style -> add_song_content
    doc,        \* the lyric document handed to extract_text_and_style
    title,      \* the song title handed to add_song_content
    lines,      \* the list extract_text_and_style returned
    box,        \* the paragraphs of the text box add_song_content filled
    parts,      \* add_song_content's lines / footer_lines after footer extraction
    lphase,     \* "doc" | "extracted" | "composed" | "idle"
    \* ---- one slide, cleared and composed repeatedly
    slide,      \* slide.shapes, in document order
    side,       \* 'left' | 'right'
    slidePrev,  \* slide.shapes before the last call
    lastOp,     \* <<"none">> | <<"clear", side>> | <<"add", side>>
    calls,      \* number of add_song_content calls made so far
    \* ---- generate_bulletin
    prs,        \* the presentation: slide index -> slide.shapes
    song_order, \* the list of song names
    gi,         \* position in SONG_SLIDE_MAP of the next entry (1-based)
    gphase,     \* "start" | "loop" | "saved" | "nofolder" | "aborted" | "idle"
    glast,      \* what the last loop iteration did (a record)
    \* ---- update_order_of_service
    hslide,     \* prs.slides[1].shapes
    htitles,    \* song_titles
    hslide0,    \* prs.slides[1].shapes before the call
    hphase,     \* "ready" | "done" | "idle"
    \* ---- update_slide1_right
    dslide,     \* prs.slides[0].shapes
    dslide0,    \* prs.slides[0].shapes before the call
    today,      \* datetime.now().weekday(): Monday 0 .. Sunday 6
    upcoming_sunday, \* the days upcoming_sunday is ahead of today
    dphase,     \* "start" | "advance" | "done" | "idle"
    \* ---- input_loop (main4.py)
    order,      \* the song order being entered
    missing,    \* what the last validate_song_order returned
    drive,      \* the lookups of the validation run of this iteration
    iphase      \* "top" | "missing" | "returned" | "idle"

vars == <<rev, doc, title, lines, box, parts, lphase, slide, side, slidePrev, lastOp,
          calls, prs, song_order, gi, gphase, glast, hslide, htitles, hslide0,
          hphase, dslide, dslide0, today, upcoming_sunday, dphase,
          order, missing, drive, iphase>>

lyricVars == <<doc, title, lines, box, parts, lphase>>
slideVars == <<slide, side, slidePrev, lastOp, calls>>
genVars   == <<prs, song_order, gi, gphase, glast>>
hymnVars  == <<hslide, htitles, hslide0, hphase>>
dateVars  == <<dslide, dslide0, today, upcoming_sunday, dphase>>
inputVars == <<order, missing, drive, iphase>>

Revisions == 1..4

(***************************************************************************)
(* Python str operations                                                   *)
(***************************************************************************)
Ch(s, i) == SubSeq(s, i, i)

IsSpace(c) == c \in {" ", "\t", "\n"}

IsDigit(c) == c \in {"0", "1", "2", "3", "4", "5", "6", "7", "8", "9"}

UpperCase == "ABCDEFGHIJKLMNOPQRSTUVWXYZ"
LowerCase == "abcdefghijklmnopqrstuvwxyz"

IsAlpha(c) == \E i \in 1..26 : Ch(UpperCase, i) = c \/ Ch(LowerCase, i) = c

\* \w of Python's re
IsWordCh(c) == IsAlpha(c) \/ IsDigit(c) \/ c = "_"

LowerCh(c) ==
    IF \E i \in 1..26 : Ch(UpperCase, i) = c
    THEN Ch(LowerCase, CHOOSE i \in 1..26 : Ch(UpperCase, i) = c)
    ELSE c

RECURSIVE Lower(_)
Lower(s) == IF s = "" THEN "" ELSE LowerCh(Ch(s, 1)) \o Lower(SubSeq(s, 2, Len(s)))

RECURSIVE LStrip(_)
LStrip(s) ==
    IF s # "" /\ IsSpace(Ch(s, 1)) THEN LStrip(SubSeq(s, 2, Len(s))) ELSE s

RECURSIVE RStrip(_)
RStrip(s) ==
    IF s # "" /\ IsSpace(Ch(s, Len(s))) THEN RStrip(SubSeq(s, 1, Len(s) - 1)) ELSE s

Strip(s) == RStrip(LStrip(s))

StartsWith(s, p) == Len(s) >= Len(p) /\ SubSeq(s, 1, Len(p)) = p

EndsWith(s, p) == Len(s) >= Len(p) /\ SubSeq(s, Len(s) - Len(p) + 1, Len(s)) = p

Contains(s, sub) ==
    \E i \in 1..(Len(s) - Len(sub) + 1) : SubSeq(s, i, i + Len(sub) - 1) = sub

AllDigits(s) == s # "" /\ \A i \in 1..Len(s) : IsDigit(Ch(s, i))

\* str.splitlines(): no empty last piece after a final line break
RECURSIVE SplitLines(_)
SplitLines(s) ==
    IF s = "" THEN <<>>
    ELSE IF ~Contains(s, "\n") THEN <<s>>
    ELSE LET k == CHOOSE i \in 1..Len(s) :
                      Ch(s, i) = "\n" /\ \A j \in 1..(i - 1) : Ch(s, j) # "\n"
         IN  <<SubSeq(s, 1, k - 1)>> \o SplitLines(SubSeq(s, k + 1, Len(s)))

\* len(s.split()): the number of maximal runs of non-whitespace
WordCount(s) ==
    Cardinality({i \in 1..Len(s) :
        ~IsSpace(Ch(s, i)) /\ (i = 1 \/ IsSpace(Ch(s, i - 1)))})

\* "".join(texts)
RECURSIVE Join(_)
Join(texts) == IF texts = <<>> THEN "" ELSE Head(texts) \o Join(Tail(texts))

\* a or b
PyOr(a, b) == IF a = "True" THEN a ELSE b

\* x is True
IsTrue(x) == IF x = "True" THEN "True" ELSE "False"

\* concatenation of a sequence of sequences
RECURSIVE Flatten(_)
Flatten(ss) == IF ss = <<>> THEN <<>> ELSE Head(ss) \o Flatten(Tail(ss))

(***************************************************************************)
(* A document is [readable, paragraphs]; a paragraph is the sequence of    *)
(* its runs; a run is [text, italic], italic in {"True","False","None"}.   *)
(* A line is [text, italic].                                               *)
(***************************************************************************)
DocRun(t, it) == [text |-> t, italic |-> it]

Line(t, it) == [text |-> t, italic |-> it]

\* Paragraph.text of python-docx: the run texts joined
ParaText(p) == Join([i \in 1..Len(p) |-> p[i].text])

\* re.match(r'Hymnal #\d+', t) or re.match(r'Verse \d+', t) or re.match(r'Chorus', t)
MarkerPrefix(t) ==
    \/ StartsWith(t, "Hymnal #") /\ Len(t) >= 9 /\ IsDigit(Ch(t, 9))
    \/ StartsWith(t, "Verse ") /\ Len(t) >= 7 /\ IsDigit(Ch(t, 7))
    \/ StartsWith(t, "Chorus")

\* re.match(r'^(Hymnal #\d+|Verse \d+|Chorus)$', t, re.IGNORECASE)
MarkerFull(t) ==
    LET l == Lower(t)
    IN  \/ l = "chorus"
        \/ StartsWith(l, "hymnal #") /\ AllDigits(SubSeq(l, 9, Len(l)))
        \/ StartsWith(l, "verse ") /\ AllDigits(SubSeq(l, 7, Len(l)))

\* the runs of p with a non-empty text
TextRuns(p) == SelectSeq(p, LAMBDA r : r.text # "")

\* current_italic = current_italic or run.italic, over the runs with text
RECURSIVE ItalicFold(_, _)
ItalicFold(cur, rs) ==
    IF rs = <<>> THEN cur ELSE ItalicFold(PyOr(cur, Head(rs).italic), Tail(rs))

\* main.py: the lines one paragraph contributes
ExtractPara1(p) ==
    LET rs   == TextRuns(p)
        full == RStrip(ParaText(rs))
    IN  IF rs = <<>> THEN <<>>
        ELSE IF Strip(full) = "" THEN <<>>
        ELSE IF MarkerPrefix(full) THEN <<>>
        ELSE <<Line(Strip(full), ItalicFold("False", rs))>>

\* main2.py: the lines one paragraph contributes
ExtractPara2(p) ==
    LET rs   == TextRuns(p)
        full == Strip(ParaText(rs))
    IN  IF rs = <<>> THEN <<>>
        ELSE IF full # "" /\ ~MarkerPrefix(full)
             THEN <<Line(full, ItalicFold("False", rs))>>
             ELSE <<>>

\* main3.py / main4.py: the lines one run contributes
RunLines(run) ==
    LET t  == Strip(run.text)
        ls == SplitLines(t)
        st == [i \in 1..Len(ls) |-> Line(Strip(ls[i]), IsTrue(run.italic))]
    IN  IF t = "" THEN <<>> ELSE SelectSeq(st, LAMBDA l : l.text # "")

\* a variant that returns a blank paragraph's text as it stands
ExtractPara3_RawBlank(p) ==
    LET raw_para == Strip(ParaText(p))
    IN  IF raw_para = "" THEN <<Line(ParaText(p), "False")>>
        ELSE IF MarkerFull(Strip(raw_para)) THEN <<>>
        ELSE Flatten([i \in 1..Len(p) |-> RunLines(p[i])])

\* main3.py / main4.py: the lines one paragraph contributes
ExtractPara3(p) ==
    LET raw_para == Strip(ParaText(p))
    IN  IF raw_para = "" THEN <<Line("", "False")>>
        ELSE IF MarkerFull(Strip(raw_para)) THEN <<>>
        ELSE Flatten([i \in 1..Len(p) |-> RunLines(p[i])])

ExtractPara(r, p) ==
    CASE r = 1 -> ExtractPara1(p)
      [] r = 2 -> ExtractPara2(p)
      [] OTHER -> ExtractPara3(p)

\* extract_text_and_style: [] when Document() raises
extract_text_and_style(r, d) ==
    IF ~d.readable THEN <<>>
    ELSE Flatten([i \in 1..Len(d.paragraphs) |-> ExtractPara(r, d.paragraphs[i])])

(***************************************************************************)
(* add_song_content: the paragraphs written into the new text box.  A      *)
(* paragraph is the sequence of its runs (an empty paragraph is <<>>); a   *)
(* run is [text, size, bold, italic].  Paragraph spacing and alignment are *)
(* not part of the model.                                                  *)
(***************************************************************************)
TextRun(t, sz, b, it) == [text |-> t, size |-> sz, bold |-> b, italic |-> it]

\* CONFIG of main3.py and main4.py
FONT_SIZE == 12
TITLE_SIZE == 12
FOOTNOTE_SIZE == 5
\* CONFIG of main2.py
FONT_SIZE_2 == 11
TITLE_SIZE_2 == 11
\* the literal sizes of main.py
BODY_PT_1 == 11
FOOTNOTE_PT_1 == 5

TitleSize(r) == CASE r = 1 -> BODY_PT_1 [] r = 2 -> TITLE_SIZE_2 [] OTHER -> TITLE_SIZE
BodySize(r) == CASE r = 1 -> BODY_PT_1 [] r = 2 -> FONT_SIZE_2 [] OTHER -> FONT_SIZE
FootnoteSize(r) == IF r = 1 THEN FOOTNOTE_PT_1 ELSE FOOTNOTE_SIZE

\* CONFIG["PAGE_NUMBERS"]; 0 stands for a missing key
PAGE_NUMBERS(slide_index, sd) ==
    CASE slide_index = 1 /\ sd = "right" -> 7
      [] slide_index = 2 /\ sd = "left"  -> 6
      [] slide_index = 2 /\ sd = "right" -> 3
      [] slide_index = 3 /\ sd = "left"  -> 4
      [] slide_index = 3 /\ sd = "right" -> 5
      [] OTHER -> 0

\* str(n) for a one-digit n
DigitStr(n) == Ch("0123456789", n + 1)

\* the paragraph holding the title (and, from main3.py on, the page number)
TitleParagraph(r, ttl, slide_index, sd) ==
    LET run_title == TextRun(ttl, TitleSize(r), "True", "None")
        n == PAGE_NUMBERS(slide_index, sd)
    IN  CASE r \in {1, 2} -> <<run_title>>
          [] r = 3 ->
                IF n # 0
                THEN <<run_title,
                       TextRun("    ", TITLE_SIZE, "None", "None"),
                       TextRun(DigitStr(n), TITLE_SIZE, "None", "None")>>
                ELSE <<run_title>>
          [] OTHER ->
                IF n # 0
                THEN <<run_title,
                       TextRun("    " \o DigitStr(n), TITLE_SIZE, "None", "None")>>
                ELSE <<run_title>>

\* a variant that compares the first line with the title without .lower()
DropDuplicateTitle_CaseSensitive(ls, ttl) ==
    IF Len(ls) > 1 /\ Strip(ls[1].text) = Strip(ttl) THEN Tail(ls) ELSE ls

\* lines[1:] if len(lines) > 1 and lines[0][0].strip().lower() == title.strip().lower() else lines
DropDuplicateTitle(ls, ttl) ==
    IF Len(ls) > 1 /\ Lower(Strip(ls[1].text)) = Lower(Strip(ttl))
    THEN Tail(ls)
    ELSE ls

Front(s) == SubSeq(s, 1, Len(s) - 1)

Last(s) == s[Len(s)]

\* a variant that asks for a digit only
FooterHeuristic_DigitOnly(t) == \E i \in 1..Len(t) : IsDigit(Ch(t, i))

\* main.py, main2.py: any digit, and a comma or a period
FooterHeuristic(t) ==
    /\ \E i \in 1..Len(t) : IsDigit(Ch(t, i))
    /\ Contains(t, ",") \/ Contains(t, ".")

\* main.py, main2.py: at most the last line becomes the footer
SplitLastLine(ls) ==
    IF ls # <<>> /\ FooterHeuristic(Strip(Last(ls).text))
    THEN [body |-> Front(ls), footer |-> <<Last(ls)>>]
    ELSE [body |-> ls, footer |-> <<>>]

\* stands for the copyright sign U+00A9, which a TLA+ string cannot hold
COPYRIGHT_SIGN == "@"

\* [0-9]{4}
HasFourDigits(t) ==
    \E i \in 1..(Len(t) - 3) : \A j \in i..(i + 3) : IsDigit(Ch(t, j))

\* by\s+\w+ under re.IGNORECASE
HasByWord(t) ==
    \E i \in 1..(Len(t) - 3) :
        /\ Lower(SubSeq(t, i, i + 1)) = "by"
        /\ IsSpace(Ch(t, i + 2))
        /\ \E j \in (i + 3)..Len(t) :
              /\ IsWordCh(Ch(t, j))
              /\ \A k \in (i + 2)..(j - 1) : IsSpace(Ch(t, k))

\* re.search(r'(©|CCLI|Public Domain|Words and Music|[0-9]{4}|Translated|by\s+\w+)', t, re.IGNORECASE)
AttributionPattern(t) ==
    LET l == Lower(t)
    IN  \/ Contains(t, COPYRIGHT_SIGN)
        \/ Contains(l, "ccli")
        \/ Contains(l, "public domain")
        \/ Contains(l, "words and music")
        \/ HasFourDigits(t)
        \/ Contains(l, "translated")
        \/ HasByWord(t)

\* a variant that moves blank lines into the footer instead of discarding them
RECURSIVE FooterScan_KeepBlank(_, _)
FooterScan_KeepBlank(ls, footer_lines) ==
    IF ls = <<>> THEN [body |-> ls, footer |-> footer_lines]
    ELSE LET text == Strip(Last(ls).text)
         IN  IF text = "" \/ AttributionPattern(text)
             THEN FooterScan_KeepBlank(Front(ls), <<Last(ls)>> \o footer_lines)
             ELSE [body |-> ls, footer |-> footer_lines]

\* a variant that ends the scan at a blank line
RECURSIVE FooterScan_StopAtBlank(_, _)
FooterScan_StopAtBlank(ls, footer_lines) ==
    IF ls = <<>> THEN [body |-> ls, footer |-> footer_lines]
    ELSE LET text == Strip(Last(ls).text)
         IN  IF text # "" /\ AttributionPattern(text)
             THEN FooterScan_StopAtBlank(Front(ls), <<Last(ls)>> \o footer_lines)
             ELSE [body |-> ls, footer |-> footer_lines]

\* main3.py: the loop that pops footer lines off the end of lines
RECURSIVE FooterScan(_, _)
FooterScan(ls, footer_lines) ==
    IF ls = <<>> THEN [body |-> ls, footer |-> footer_lines]
    ELSE LET text == Strip(Last(ls).text)
         IN  IF text = "" THEN FooterScan(Front(ls), footer_lines)
             ELSE IF AttributionPattern(text)
                  THEN FooterScan(Front(ls), <<Last(ls)>> \o footer_lines)
                  ELSE [body |-> ls, footer |-> footer_lines]

\* the footer extraction of revision r (main4.py has none)
SplitFooter(r, ls) ==
    CASE r \in {1, 2} -> SplitLastLine(ls)
      [] r = 3 -> FooterScan(ls, <<>>)
      [] OTHER -> [body |-> ls, footer |-> <<>>]

\* a variant that takes every line of at most two words as short
IsShortLine_AnyEnding(text) == WordCount(text) <= 2

\* main.py: len(text.split()) <= 2 and not ending in ':' or ';'
IsShortLine(text) ==
    /\ WordCount(text) <= 2
    /\ ~EndsWith(Strip(text), ":")
    /\ ~EndsWith(Strip(text), ";")

\* main.py: text.strip().endswith(('.', '!', '?')) and len(text.strip()) > 0
EndsTerminal(text) ==
    LET t == Strip(text)
    IN  (EndsWith(t, ".") \/ EndsWith(t, "!") \/ EndsWith(t, "?")) /\ Len(t) > 0

\* a variant that breaks the verse only after the last line
should_break_verse_LastOnly(text, i, n) == i >= n

\* main.py: should_break_verse for line i of n (1-based)
should_break_verse(text, i, n) ==
    IF i < n THEN EndsTerminal(text) \/ IsShortLine(text) ELSE TRUE

\* a variant that adds the spacing paragraph before a footer as well
NeedsSpacing_BeforeFooter(text, i, n, hasFooter) ==
    (EndsWith(Strip(text), "!") /\ Len(Strip(text)) > 0) \/ IsShortLine(text)

\* main.py: the condition for the spacing paragraph after a verse
NeedsSpacing(text, i, n, hasFooter) ==
    /\ (EndsWith(Strip(text), "!") /\ Len(Strip(text)) > 0) \/ IsShortLine(text)
    /\ i < n \/ ~hasFooter

\* main.py: one paragraph for a verse, its lines joined by line breaks
VerseParagraph(cur) ==
    [k \in 1..Len(cur) |->
        TextRun(cur[k].text \o (IF k < Len(cur) THEN "\n" ELSE ""),
                BODY_PT_1, "None", cur[k].italic)]

\* main.py: the loop over lines_for_content
RECURSIVE VerseParas(_, _, _, _)
VerseParas(lfc, i, current_verse, hasFooter) ==
    IF i > Len(lfc) THEN <<>>
    ELSE LET cv   == Append(current_verse, lfc[i])
             text == lfc[i].text
         IN  IF should_break_verse(text, i, Len(lfc))
             THEN <<VerseParagraph(cv)>>
                  \o (IF NeedsSpacing(text, i, Len(lfc), hasFooter)
                      THEN <<(<<>>)>> ELSE <<>>)
                  \o VerseParas(lfc, i + 1, <<>>, hasFooter)
             ELSE VerseParas(lfc, i + 1, cv, hasFooter)

\* one paragraph holding one line
LineParagraph(r, text, it) == <<TextRun(text, BodySize(r), "None", it)>>

\* main3.py: the paragraphs of one non-blank line
LineParas3(l) ==
    IF Contains(l.text, "\n")
    THEN LET subs == SplitLines(l.text)
         IN  [k \in 1..Len(subs) |->
                 IF Strip(subs[k]) = "" THEN <<>>
                 ELSE LineParagraph(3, subs[k], l.italic)]
    ELSE <<LineParagraph(3, l.text, l.italic)>>

\* a variant in which a blank line resets prev_italic
RECURSIVE BodyParas3_ResetAtBlank(_, _)
BodyParas3_ResetAtBlank(ls, prev_italic) ==
    IF ls = <<>> THEN <<>>
    ELSE LET l == Head(ls)
         IN  IF Strip(l.text) = ""
             THEN <<(<<>>)>> \o BodyParas3_ResetAtBlank(Tail(ls), "None")
             ELSE (IF prev_italic = "True" /\ l.italic = "False"
                   THEN <<(<<>>)>> ELSE <<>>)
                  \o LineParas3(l)
                  \o BodyParas3_ResetAtBlank(Tail(ls), l.italic)

\* main3.py: the loop over the body lines, prev_italic carried along
RECURSIVE BodyParas3(_, _)
BodyParas3(ls, prev_italic) ==
    IF ls = <<>> THEN <<>>
    ELSE LET l == Head(ls)
         IN  IF Strip(l.text) = ""
             THEN <<(<<>>)>> \o BodyParas3(Tail(ls), prev_italic)
             ELSE (IF prev_italic = "True" /\ l.italic = "False"
                   THEN <<(<<>>)>> ELSE <<>>)
                  \o LineParas3(l)
                  \o BodyParas3(Tail(ls), l.italic)

\* main2.py: one paragraph per line
BodyParas2(ls) == [k \in 1..Len(ls) |-> LineParagraph(2, ls[k].text, ls[k].italic)]

\* main4.py: one paragraph per line, an empty one for a blank line
BodyParas4(ls) ==
    [k \in 1..Len(ls) |->
        IF Strip(ls[k].text) = "" THEN <<>>
        ELSE LineParagraph(4, ls[k].text, ls[k].italic)]

\* the paragraphs of the body lines in revision r
BodyParas(r, body, hasFooter) ==
    CASE r = 1 -> VerseParas(body, 1, <<>>, hasFooter)
      [] r = 2 -> BodyParas2(body)
      [] r = 3 -> BodyParas3(body, "None")
      [] OTHER -> BodyParas4(body)

\* a variant that writes no footer paragraph
FooterParas_None(r, footer) == <<>>

\* one paragraph per footer line, in the footnote size
FooterParas(r, footer) ==
    [k \in 1..Len(footer) |->
        <<TextRun(footer[k].text, FootnoteSize(r), "None", footer[k].italic)>>]

\* main.py adds the title after the paragraph a new text box starts with;
\* the later revisions clear the text frame and write the title into it
LeadingParas(r) == IF r = 1 THEN <<(<<>>)>> ELSE <<>>

\* add_song_content: every paragraph of the text box, in order
SongParagraphs(r, sd, ttl, ls, slide_index) ==
    LET content == DropDuplicateTitle(ls, ttl)
        split   == SplitFooter(r, content)
    IN  LeadingParas(r)
        \o <<TitleParagraph(r, ttl, slide_index, sd)>>
        \o BodyParas(r, split.body, split.footer # <<>>)
        \o FooterParas(r, split.footer)

(***************************************************************************)
(* Slides.  slide.shapes is a sequence of shapes; a shape is               *)
(* [left, top, has_text_frame, paras].  Every python-pptx shape has the    *)
(* attribute "left", so hasattr(shape, "left") holds for all of them.      *)
(***************************************************************************)
\* pptx.util.Inches, its argument given in tenths of an inch
Inches(tenths) == tenths * 91440

\* midpoint = Inches(5)
midpoint == Inches(50)

Shape(l, t, htf, ps) == [left |-> l, top |-> t, has_text_frame |-> htf, paras |-> ps]

\* main2.py on: shape.left (EMU) against the midpoint (EMU)
OnSideEmu(sd, sh) ==
    \/ sd = "left" /\ sh.left < midpoint
    \/ sd = "right" /\ sh.left >= midpoint

\* main.py: shape.left.inches (a number of inches) against the midpoint (EMU).
\* left / 914400 < m and left \div 914400 < m agree for an integer m.
OnSideInches(sd, sh) ==
    \/ sd = "left" /\ (sh.left \div 914400) < midpoint
    \/ sd = "right" /\ (sh.left \div 914400) >= midpoint

\* the test that puts a shape on the removal list
ToRemove(r, sd, sh) == IF r = 1 THEN OnSideInches(sd, sh) ELSE OnSideEmu(sd, sh)

\* clear_side: the shapes left on the slide
clear_side(r, shapes, sd) == SelectSeq(shapes, LAMBDA sh : ~ToRemove(r, sd, sh))

\* the position of the new text box: (left, top) in EMU
BoxLeft(r, sd) ==
    IF r = 1 THEN (IF sd = "left" THEN Inches(5) ELSE Inches(52))
    ELSE (IF sd = "left" THEN Inches(1) ELSE Inches(50))

BoxTop(r) == IF r = 1 THEN Inches(5) ELSE Inches(1)

\* the text box add_song_content creates and fills
TextBox(r, sd, ttl, ls, slide_index) ==
    Shape(BoxLeft(r, sd), BoxTop(r), TRUE, SongParagraphs(r, sd, ttl, ls, slide_index))

\* add_song_content: clear_side, then add_textbox at the end of the shape tree
add_song_content(r, shapes, sd, ttl, ls, slide_index) ==
    Append(clear_side(r, shapes, sd), TextBox(r, sd, ttl, ls, slide_index))

(***************************************************************************)
(* The slide/side/song assignment of generate_bulletin                     *)
(***************************************************************************)
SONG_SLIDE_MAP ==
    << [slide_index |-> 3, side |-> "left",  song_index |-> 1],
       [slide_index |-> 3, side |-> "right", song_index |-> 2],
       [slide_index |-> 2, side |-> "left",  song_index |-> 3],
       [slide_index |-> 1, side |-> "right", song_index |-> 4],
       [slide_index |-> 2, side |-> "right", song_index |-> 0] >>

(***************************************************************************)
(* Inputs: documents built from a pool of paragraphs                       *)
(***************************************************************************)
MaxParas == 3

SeqsUpTo(S, n) == UNION {[1..k -> S] : k \in 0..n}

ParagraphPool ==
    { <<DocRun("  ", "None")>>,
      <<DocRun("Chorus", "None")>>,
      <<DocRun("verse 2", "None")>>,
      <<DocRun("Chorus\nSing on", "True")>>,
      <<DocRun("AMAZING GRACE", "False")>>,
      <<DocRun("Words by John Newton, 1779", "False")>>,
      <<DocRun("I once was ", "False"), DocRun("lost", "True")>> }

\* the five lines of "Amazing Grace", one paragraph each
ScenarioALines ==
    << "Amazing grace, how sweet the sound",
       "That saved a wretch like me!",
       "I once was lost, but now am found",
       "Was blind, but now I see.",
       "Words by John Newton, 1779" >>

ScenarioADoc ==
    [readable |-> TRUE,
     paragraphs |-> [i \in 1..5 |-> <<DocRun(ScenarioALines[i], "None")>>]]

UnreadableDoc == [readable |-> FALSE, paragraphs |-> <<>>]

Documents ==
    {[readable |-> TRUE, paragraphs |-> ps] : ps \in SeqsUpTo(ParagraphPool, MaxParas)}
    \cup {ScenarioADoc, UnreadableDoc}

Titles == {"Amazing Grace"}

NoParts == [body |-> <<>>, footer |-> <<>>]

IdleLyric ==
    /\ doc = UnreadableDoc /\ title = "" /\ lines = <<>> /\ box = <<>>
    /\ parts = NoParts /\ lphase = "idle"

IdleSlide ==
    /\ slide = <<>> /\ side = "left" /\ slidePrev = <<>>
    /\ lastOp = <<"none">> /\ calls = 0

IdleGen ==
    /\ prs = <<>> /\ song_order = <<>> /\ gi = 0 /\ gphase = "idle"
    /\ glast = [kind |-> "none"]

IdleHymn == hslide = <<>> /\ htitles = <<>> /\ hslide0 = <<>> /\ hphase = "idle"

IdleDate ==
    /\ dslide = <<>> /\ dslide0 = <<>> /\ today = 0 /\ upcoming_sunday = 0
    /\ dphase = "idle"

IdleInput ==
    /\ order = <<>> /\ missing = <<>> /\ drive = <<>> /\ iphase = "idle"

(***************************************************************************)
(* SpecLyric: one document through extract_text_and_style and, when the    *)
(* caller's "if lines:" lets it, through add_song_content                  *)
(***************************************************************************)
\* the assignment entry the song is composed for
LyricEntry == SONG_SLIDE_MAP[1]

InitLyric ==
    /\ rev \in Revisions
    /\ doc \in Documents
    /\ title \in Titles
    /\ lines = <<>> /\ box = <<>> /\ parts = NoParts /\ lphase = "doc"
    /\ IdleSlide /\ IdleGen /\ IdleHymn /\ IdleDate /\ IdleInput

ExtractLyrics ==
    /\ lphase = "doc"
    /\ lines' = extract_text_and_style(rev, doc)
    /\ lphase' = "extracted"
    /\ UNCHANGED <<rev, doc, title, box, parts, slideVars, genVars, hymnVars, dateVars, inputVars>>

ComposeLyrics ==
    /\ lphase = "extracted"
    /\ lines # <<>>
    /\ box' = SongParagraphs(rev, LyricEntry.side, title, lines, LyricEntry.slide_index)
    /\ parts' = SplitFooter(rev, DropDuplicateTitle(lines, title))
    /\ lphase' = "composed"
    /\ UNCHANGED <<rev, doc, title, lines, slideVars, genVars, hymnVars, dateVars, inputVars>>

NextLyric == ExtractLyrics \/ ComposeLyrics

SpecLyric == InitLyric /\ [][NextLyric]_vars

(***************************************************************************)
(* Reading a text box back: the paragraphs after the title paragraph       *)
(***************************************************************************)
AfterTitle(r, b) == SubSeq(b, Len(LeadingParas(r)) + 2, Len(b))

\* all runs of a sequence of paragraphs
RunsOf(ps) == Flatten(ps)

\* the paragraphs in the footnote size (main4.py writes none)
FooterParagraphs(r, b) ==
    SelectSeq(AfterTitle(r, b),
              LAMBDA q : r # 4 /\ q # <<>> /\ q[1].size = FootnoteSize(r))

\* the non-empty paragraphs in the body size
VerseParagraphs(r, b) ==
    SelectSeq(AfterTitle(r, b), LAMBDA q : q # <<>> /\ q[1].size = BodySize(r))

\* the texts of a paragraph's runs, without the joining line breaks
RunTexts(q) == [k \in 1..Len(q) |-> RStrip(q[k].text)]

VerseGroups(r, b) ==
    LET vs == VerseParagraphs(r, b) IN [k \in 1..Len(vs) |-> RunTexts(vs[k])]

FooterTexts(r, b) ==
    LET fs == FooterParagraphs(r, b) IN [k \in 1..Len(fs) |-> RunTexts(fs[k])[1]]

\* a trimmed text that is a section label: Hymnal #<digits>, Verse <digits>, Chorus
StructuralMarker(t) ==
    LET l == Lower(Strip(t))
    IN  \/ l = "chorus"
        \/ \E n \in 1..Len(l) :
              /\ AllDigits(SubSeq(l, Len(l) - n + 1, Len(l)))
              /\ SubSeq(l, 1, Len(l) - n) \in {"hymnal #", "verse "}

SameAsTitle(t, ttl) == Lower(Strip(t)) = Lower(Strip(ttl))

\* how many of the texts equal the title, case-insensitively
TitleCount(texts, ttl) ==
    Cardinality({k \in 1..Len(texts) : SameAsTitle(texts[k], ttl)})

LineTexts(ls) == [k \in 1..Len(ls) |-> ls[k].text]

RenderedTexts(r, b) ==
    LET rs == RunsOf(AfterTitle(r, b)) IN [k \in 1..Len(rs) |-> rs[k].text]

NonBlankLines(ls) == SelectSeq(ls, LAMBDA l : Strip(l.text) # "")

(***************************************************************************)
(* Claims on extraction and composition (SpecLyric)                        *)
(***************************************************************************)

\* C3: no line returned by extract_text_and_style has a trimmed text that
\* is a structural marker (Hymnal #<digits>, Verse <digits>, Chorus, in any
\* letter case), also when the marker is one line of a multi-line run.
C3_NoMarkerExtracted ==
    \A i \in 1..Len(lines) : ~StructuralMarker(lines[i].text)

C5_FooterPrefixStable ==
    lphase = "composed" =>
        LET content == DropDuplicateTitle(lines, title)
        IN  /\ SplitFooter(rev, parts.body).footer = <<>>
            /\ parts.body \o parts.footer = content

\* C5, amended: the body is a prefix of the original sequence and the
\* footer is the rest of it without its blank lines, in order; main.py and
\* main2.py (which take at most the last line and never see a blank line)
\* give back the original sequence exactly; in main3.py footer extraction
\* run again on the body extracts nothing more.
C5_FooterSplitKeepsOrder ==
    lphase = "composed" =>
        LET content == DropDuplicateTitle(lines, title)
            rest    == SubSeq(content, Len(parts.body) + 1, Len(content))
        IN  /\ Len(parts.body) <= Len(content)
            /\ parts.body = SubSeq(content, 1, Len(parts.body))
            /\ parts.footer = NonBlankLines(rest)
            /\ rev \in {1, 2} => /\ parts.body \o parts.footer = content
                                 /\ Len(parts.footer) <= 1
            /\ rev = 3 => SplitFooter(rev, parts.body).footer = <<>>

C5_Witness ==
    /\ lphase = "composed" /\ rev = 3
    /\ parts.footer # <<>>
    /\ parts.body # <<>>
    /\ Len(parts.body) + Len(parts.footer) < Len(DropDuplicateTitle(lines, title))

MaxShapes == 3
MaxCalls == 2

\* shapes of a template: one well left of the midpoint, one just left of
\* it, one on it, one right of it
TemplateShapes ==
    { Shape(Inches(10), Inches(10), FALSE, <<>>),
      Shape(Inches(50) - 1, Inches(10), FALSE, <<>>),
      Shape(Inches(50), Inches(10), FALSE, <<>>),
      Shape(Inches(60), Inches(10), FALSE, <<>>) }

SlideSongDoc ==
    [readable |-> TRUE, paragraphs |-> << <<DocRun("Hallelujah!", "True")>> >>]

\* the slide index the song is composed for (slide 4 of the deck)
SlideSongIndex == SONG_SLIDE_MAP[1].slide_index

InitSlide ==
    /\ rev \in Revisions
    /\ slide \in SeqsUpTo(TemplateShapes, MaxShapes)
    /\ side \in {"left", "right"}
    /\ slidePrev = slide
    /\ lastOp = <<"none">>
    /\ calls = 0
    /\ doc = SlideSongDoc
    /\ title = "Hallelujah"
    /\ lines = extract_text_and_style(rev, SlideSongDoc)
    /\ box = <<>> /\ parts = NoParts /\ lphase = "idle"
    /\ IdleGen /\ IdleHymn /\ IdleDate /\ IdleInput

ClearSide ==
    \E sd \in {"left", "right"} :
        /\ slidePrev' = slide
        /\ slide' = clear_side(rev, slide, sd)
        /\ lastOp' = <<"clear", sd>>
        /\ UNCHANGED <<rev, side, calls, lyricVars, genVars, hymnVars, dateVars, inputVars>>

AddSongContent ==
    /\ calls < MaxCalls
    /\ slidePrev' = slide
    /\ slide' = add_song_content(rev, slide, side, title, lines, SlideSongIndex)
    /\ lastOp' = <<"add", side>>
    /\ calls' = calls + 1
    /\ UNCHANGED <<rev, side, lyricVars, genVars, hymnVars, dateVars, inputVars>>

NextSlide == ClearSide \/ AddSongContent

SpecSlide == InitSlide /\ [][NextSlide]_vars

\* the shapes whose left edge lies on side sd of the 5-inch midpoint
ShapesOn(shapes, sd) ==
    SelectSeq(shapes, LAMBDA sh : IF sd = "left" THEN sh.left < Inches(50)
                                  ELSE sh.left >= Inches(50))

OtherSide(sd) == IF sd = "left" THEN "right" ELSE "left"

\* C1: in every revision, clear_side(slide, sd), and add_song_content on
\* side sd, leave the shapes of the other side of the midpoint as they were:
\* none of them is removed.
C1_ClearingIsSideScoped ==
    lastOp # <<"none">> =>
        ShapesOn(slide, OtherSide(lastOp[2])) = ShapesOn(slidePrev, OtherSide(lastOp[2]))

\* C2: after one or more consecutive calls of add_song_content with the same
\* arguments, the designated side holds exactly one shape, the new text box:
\* no leftover shape of that side and no second box.
C2_ComposeIsIdempotent ==
    lastOp = <<"add", side>> =>
        ShapesOn(slide, side) = <<TextBox(rev, side, title, lines, SlideSongIndex)>>

(***************************************************************************)
(* update_order_of_service (main3.py, main4.py)                            *)
(***************************************************************************)
\* stand for the quotation marks U+201C and U+201D, which a TLA+ string
\* cannot hold
LEFT_QUOTE == "{"
RIGHT_QUOTE == "}"

\* total_width = 60
total_width == 60

Max(a, b) == IF a >= b THEN a ELSE b

\* " " * n
RECURSIVE Spaces(_)
Spaces(n) == IF n <= 0 THEN "" ELSE " " \o Spaces(n - 1)

\* the length of the match of \s*\(.*?\) at the start of s, 0 when there is none
ParenMatchLen(s) ==
    LET ws == {w \in 0..Len(s) : \A j \in 1..w : IsSpace(Ch(s, j))}
        w  == CHOOSE x \in ws : \A y \in ws : y <= x
        closes == {k \in (w + 2)..Len(s) :
                      /\ Ch(s, k) = ")"
                      /\ \A j \in (w + 2)..(k - 1) : Ch(s, j) # "\n"}
    IN  IF Len(s) > w /\ Ch(s, w + 1) = "(" /\ closes # {}
        THEN CHOOSE k \in closes : \A k2 \in closes : k <= k2
        ELSE 0

\* re.sub(r'\s*\(.*?\)', '', s)
RECURSIVE RemoveParenthesized(_)
RemoveParenthesized(s) ==
    IF s = "" THEN ""
    ELSE LET m == ParenMatchLen(s)
         IN  IF m > 0 THEN RemoveParenthesized(SubSeq(s, m + 1, Len(s)))
             ELSE Ch(s, 1) \o RemoveParenthesized(SubSeq(s, 2, Len(s)))

\* a variant that pads to the width of the title column alone
HymnParagraph_PadTitleOnly(r, raw_title) ==
    LET clean_title  == Strip(RemoveParenthesized(raw_title))
        quoted_title == LEFT_QUOTE \o clean_title \o RIGHT_QUOTE
        padding      == Max(1, total_width - Len(quoted_title))
    IN  << TextRun("HYMN" \o Spaces(padding), FONT_SIZE, "True", "None"),
           TextRun(quoted_title, FONT_SIZE, IF r = 3 THEN "False" ELSE "None", "None") >>

\* the two runs written into a HYMN paragraph; only main3.py sets bold = False
HymnParagraph(r, raw_title) ==
    LET clean_title  == Strip(RemoveParenthesized(raw_title))
        quoted_title == LEFT_QUOTE \o clean_title \o RIGHT_QUOTE
        padding      == Max(1, total_width - Len(quoted_title) - 5)
    IN  << TextRun("HYMN" \o Spaces(padding), FONT_SIZE, "True", "None"),
           TextRun(quoted_title, FONT_SIZE, IF r = 3 THEN "False" ELSE "None", "None") >>

\* Paragraph.text of python-pptx: the run texts joined
ShapeParaText(para) == Join([i \in 1..Len(para) |-> para[i].text])

\* a variant that leaves out the test of the shape's left edge
HymnShapeSkipped_AnySide(sh) == ~sh.has_text_frame

\* if not shape.has_text_frame or shape.left >= left_limit: continue
HymnShapeSkipped(sh) == ~sh.has_text_frame \/ sh.left >= Inches(50)

\* the loop over one text frame's paragraphs: [paras, hymn_index]
RECURSIVE HymnParas(_, _, _, _)
HymnParas(r, ps, song_titles, hymn_index) ==
    IF ps = <<>> THEN [paras |-> <<>>, hymn_index |-> hymn_index]
    ELSE LET text == Strip(ShapeParaText(Head(ps)))
             hit  == StartsWith(text, "HYMN") /\ hymn_index < Len(song_titles)
             rest == HymnParas(r, Tail(ps), song_titles,
                               IF hit THEN hymn_index + 1 ELSE hymn_index)
         IN  [paras |-> <<IF hit THEN HymnParagraph(r, song_titles[hymn_index + 1])
                           ELSE Head(ps)>> \o rest.paras,
              hymn_index |-> rest.hymn_index]

\* the loop over slide.shapes
RECURSIVE HymnShapes(_, _, _, _)
HymnShapes(r, shapes, song_titles, hymn_index) ==
    IF shapes = <<>> THEN <<>>
    ELSE LET sh == Head(shapes)
         IN  IF HymnShapeSkipped(sh)
             THEN <<sh>> \o HymnShapes(r, Tail(shapes), song_titles, hymn_index)
             ELSE LET res == HymnParas(r, sh.paras, song_titles, hymn_index)
                  IN  <<[sh EXCEPT !.paras = res.paras]>>
                      \o HymnShapes(r, Tail(shapes), song_titles, res.hymn_index)

\* update_order_of_service: the shapes of prs.slides[1] afterwards
update_order_of_service(r, shapes, song_titles) == HymnShapes(r, shapes, song_titles, 0)

(***************************************************************************)
(* SpecHymn: update_order_of_service on a slide and a title list           *)
(***************************************************************************)
MaxHymnShapes == 3
MaxTitles == 2

\* a paragraph of the template: one run, its font left unset
TemplatePara(t) == <<TextRun(t, 0, "None", "None")>>

HymnShapePool ==
    { Shape(Inches(10), Inches(20), TRUE,
            <<TemplatePara("HYMN"), TemplatePara("PRAYER"), TemplatePara("  HYMN old")>>),
      Shape(Inches(10), Inches(10), TRUE, <<TemplatePara("HYMN")>>),
      Shape(Inches(60), Inches(10), TRUE, <<TemplatePara("HYMN")>>),
      Shape(Inches(10), Inches(30), FALSE, <<>>) }

HymnTitles ==
    { "Christ Arose",
      "A Mighty Fortress is Our God (Hymn)",
      "Praise to the Lord, the Almighty, the King of Creation" }

InitHymn ==
    /\ rev \in {3, 4}
    /\ hslide \in SeqsUpTo(HymnShapePool, MaxHymnShapes)
    /\ htitles \in SeqsUpTo(HymnTitles, MaxTitles)
    /\ hslide0 = hslide
    /\ hphase = "ready"
    /\ IdleLyric /\ IdleSlide /\ IdleGen /\ IdleDate /\ IdleInput

UpdateOrderOfService ==
    /\ hphase = "ready"
    /\ hslide' = update_order_of_service(rev, hslide, htitles)
    /\ hphase' = "done"
    /\ UNCHANGED <<rev, htitles, hslide0, lyricVars, slideVars, genVars, dateVars, inputVars>>

NextHymn == UpdateOrderOfService

SpecHymn == InitHymn /\ [][NextHymn]_vars

\* a paragraph whose trimmed text begins with HYMN
HymnMarked(para) == StartsWith(Strip(ShapeParaText(para)), "HYMN")

\* a shape of the left half that holds text
LeftHalfText(sh) == sh.has_text_frame /\ sh.left < Inches(50)

\* the HYMN paragraphs of left-half shapes, as <<shape, paragraph>> positions
HymnPositions(shapes) ==
    UNION {{<<i, j>> : j \in {k \in 1..Len(shapes[i].paras) :
                                  /\ LeftHalfText(shapes[i])
                                  /\ HymnMarked(shapes[i].paras[k])}} :
           i \in 1..Len(shapes)}

\* the place of position ij among the HYMN paragraphs, in slide order
HymnRank(shapes, ij) ==
    1 + Cardinality({kl \in HymnPositions(shapes) :
            kl[1] < ij[1] \/ (kl[1] = ij[1] /\ kl[2] < ij[2])})

\* a title without its trailing parenthesized subtitle
WithoutSubtitle(t) ==
    IF Contains(t, "(") /\ EndsWith(t, ")")
    THEN LET k == CHOOSE i \in 1..Len(t) :
                      Ch(t, i) = "(" /\ \A j \in 1..(i - 1) : Ch(t, j) # "("
         IN  Strip(SubSeq(t, 1, k - 1))
    ELSE t

\* text is HYMN, spaces, and t in quotation marks
IsHymnEntry(text, t) ==
    LET quoted == LEFT_QUOTE \o t \o RIGHT_QUOTE
        gap    == SubSeq(text, 5, Len(text) - Len(quoted))
    IN  /\ StartsWith(text, "HYMN")
        /\ EndsWith(text, quoted)
        /\ Len(gap) >= 1
        /\ \A k \in 1..Len(gap) : Ch(gap, k) = " "

\* C10: update_order_of_service gives the i-th HYMN paragraph of the
\* left-half shapes (in slide order) the i-th title, without its
\* parenthesized subtitle and in quotation marks, for i up to the number
\* of titles; every further HYMN paragraph, every other paragraph and every
\* paragraph of a right-half shape is unchanged.  So exactly
\* min(HYMN paragraphs, titles) paragraphs are replaced.
C10_HymnTitlesInOrder ==
    hphase = "done" =>
        /\ Len(hslide) = Len(hslide0)
        /\ \A i \in 1..Len(hslide0) :
              /\ hslide[i].left = hslide0[i].left
              /\ hslide[i].top = hslide0[i].top
              /\ hslide[i].has_text_frame = hslide0[i].has_text_frame
              /\ Len(hslide[i].paras) = Len(hslide0[i].paras)
              /\ \A j \in 1..Len(hslide0[i].paras) :
                    IF /\ <<i, j>> \in HymnPositions(hslide0)
                       /\ HymnRank(hslide0, <<i, j>>) <= Len(htitles)
                    THEN IsHymnEntry(ShapeParaText(hslide[i].paras[j]),
                             WithoutSubtitle(htitles[HymnRank(hslide0, <<i, j>>)]))
                    ELSE hslide[i].paras[j] = hslide0[i].paras[j]

\* two titles, the second with a subtitle, more HYMN paragraphs than
\* titles, and a HYMN paragraph in a right-half shape
C10_Witness ==
    /\ hphase = "done"
    /\ Len(htitles) = 2
    /\ Contains(htitles[2], "(")
    /\ Cardinality(HymnPositions(hslide0)) > 2
    /\ \E i \in 1..Len(hslide0) :
          /\ hslide0[i].has_text_frame
          /\ hslide0[i].left >= Inches(50)
          /\ HymnMarked(hslide0[i].paras[1])
    /\ hslide # hslide0

(***************************************************************************)
(* update_slide1_right (main3.py, main4.py).  today is given by its        *)
(* weekday (Monday 0 .. Sunday 6); a date is written as its distance in    *)
(* days from today.                                                        *)
(***************************************************************************)
DATE_FONT_SIZE == 10

target_text_prefix == "Corporate Worship Service:"

\* a loop test that stops a day early, on Saturday
NotSunday_Saturday(weekday) == weekday # 5

\* the loop test: upcoming_sunday.weekday() != 6
NotSunday(weekday) == weekday # 6

\* while upcoming_sunday.weekday() != 6: upcoming_sunday += timedelta(days=1)
RECURSIVE DaysToSunday(_)
DaysToSunday(weekday) ==
    IF NotSunday(weekday) THEN 1 + DaysToSunday((weekday + 1) % 7) ELSE 0

\* stands for strftime("%B %-d, %Y") of the day n days after today
DateStr(n) == "today+" \o DigitStr(n)

\* the first paragraph of ps that starts with the prefix is rewritten
RECURSIVE DateParas(_, _)
DateParas(ps, new_text) ==
    IF ps = <<>> THEN <<>>
    ELSE IF StartsWith(Strip(ShapeParaText(Head(ps))), target_text_prefix)
         THEN <<(<<TextRun(new_text, DATE_FONT_SIZE, "None", "None")>>)>> \o Tail(ps)
         ELSE <<Head(ps)>> \o DateParas(Tail(ps), new_text)

\* the paragraph loop over the shapes of prs.slides[0], upcoming_sunday being
\* n days after today
WriteDate(shapes, n) ==
    LET new_text == target_text_prefix \o " " \o DateStr(n)
    IN  [i \in 1..Len(shapes) |->
            IF shapes[i].has_text_frame
            THEN [shapes[i] EXCEPT !.paras = DateParas(shapes[i].paras, new_text)]
            ELSE shapes[i]]

\* update_slide1_right: the shapes of prs.slides[0] afterwards
update_slide1_right(shapes, weekday) == WriteDate(shapes, DaysToSunday(weekday))

(***************************************************************************)
(* generate_bulletin                                                       *)
(***************************************************************************)
DEFAULT_SONG_ORDER ==
    << "Because He Lives",
       "A Mighty Fortress is Our God",
       "Christ the Lord is Risen Today",
       "Christ Arose",
       "See What a Morning (Resurrection Hymn)" >>

\* name + ".docx" in file_id: file_id is a Drive file id, a string of
\* letters, digits, "-" and "_", which holds no "."
NameInFileId == FALSE

\* the file a lookup found: name.docx first, name.doc otherwise
FoundKind(docxFound, docFound) ==
    IF docxFound THEN "docx" ELSE IF docFound THEN "doc" ELSE "none"

\* the extension the file is downloaded under
DownloadExt(r, found) ==
    IF r = 1 THEN (IF found = "docx" THEN ".docx" ELSE ".doc")
    ELSE (IF NameInFileId THEN ".docx" ELSE ".doc")

\* whether convert_doc_to_docx is called for the downloaded file
ConvertCalled(r, found) == found # "none" /\ DownloadExt(r, found) = ".doc"

\* whether a path is handed to extract_text_and_style
HasLocalFile(r, found, convOK) ==
    IF r = 1 THEN found = "docx" \/ (found = "doc" /\ convOK)
    ELSE found # "none"

\* what Document() reads at that path: the converted file, or the file as
\* downloaded (a legacy .doc is no package and makes Document() raise)
DocumentRead(r, found, convOK, fileDoc) ==
    IF ConvertCalled(r, found) /\ ~convOK /\ found = "doc" THEN UnreadableDoc
    ELSE fileDoc

\* a variant that composes the song whether or not lines were extracted
InsertSong_Always(r, p, entry, name, ls) ==
    [p EXCEPT ![entry.slide_index] =
        add_song_content(r, p[entry.slide_index], entry.side, name, ls, entry.slide_index)]

\* if lines: (clear_side and) add_song_content.  main.py's own clear_side
\* call comes before the one inside add_song_content.
InsertSong(r, p, entry, name, ls) ==
    IF ls # <<>>
    THEN [p EXCEPT ![entry.slide_index] =
            add_song_content(r,
                IF r = 1 THEN clear_side(r, p[entry.slide_index], entry.side)
                ELSE p[entry.slide_index],
                entry.side, name, ls, entry.slide_index)]
    ELSE p

GLast(k, e, f, c, x, d, ls, b) ==
    [kind |-> k, entry |-> e, found |-> f, converted |-> c, ext |-> x,
     doc |-> d, lines |-> ls, before |-> b]

NoLast == GLast("none", 0, "none", FALSE, "", UnreadableDoc, <<>>, <<>>)

\* one iteration of the loop over SONG_SLIDE_MAP: [prs, last, phase]
GenIteration(r, p, songs, i, docxFound, docFound, convOK, fileDoc) ==
    LET entry == SONG_SLIDE_MAP[i]
        found == FoundKind(docxFound, docFound)
        ext   == DownloadExt(r, found)
        conv  == ConvertCalled(r, found)
    IN  IF entry.song_index >= Len(songs)
        THEN [prs |-> p, phase |-> "loop",
              last |-> GLast("short", i, "none", FALSE, "", UnreadableDoc, <<>>, p)]
        ELSE IF found = "none"
        THEN [prs |-> p, phase |-> IF r = 4 THEN "aborted" ELSE "loop",
              last |-> GLast(IF r = 4 THEN "fatal" ELSE "not_found",
                             i, found, FALSE, "", UnreadableDoc, <<>>, p)]
        ELSE IF ~HasLocalFile(r, found, convOK)
        THEN [prs |-> p, phase |-> "loop",
              last |-> GLast("no_file", i, found, conv, ext, UnreadableDoc, <<>>, p)]
        ELSE LET name == songs[entry.song_index + 1]
                 d    == DocumentRead(r, found, convOK, fileDoc)
                 ls   == extract_text_and_style(r, d)
                 q    == InsertSong(r, p, entry, name, ls)
             IN  [prs |-> q, phase |-> "loop",
                  last |-> GLast(IF q = p THEN "no_lines" ELSE "inserted",
                                 i, found, conv, ext, d, ls, p)]

\* the template deck: four slides (index 0..3), each with a shape in either
\* half; slide 0 carries the service date and slide 1 the order of service
TemplateDeck ==
    [k \in 0..3 |->
        CASE k = 0 ->
               << Shape(Inches(10), Inches(10), FALSE, <<>>),
                  Shape(Inches(55), Inches(10), TRUE,
                        << TemplatePara("Welcome"),
                           TemplatePara("Corporate Worship Service: to be set") >>) >>
          [] k = 1 ->
               << Shape(Inches(10), Inches(10), TRUE,
                        << TemplatePara("HYMN"), TemplatePara("PRAYER"),
                           TemplatePara("HYMN") >>),
                  Shape(Inches(60), Inches(10), FALSE, <<>>) >>
          [] OTHER ->
               << Shape(Inches(10), Inches(10), FALSE, <<>>),
                  Shape(Inches(60), Inches(10), FALSE, <<>>) >>]

\* what a song file may hold: no paragraph at all, a section marker and a
\* blank paragraph, or one sung line
GenDocuments ==
    { [readable |-> TRUE, paragraphs |-> <<>>],
      [readable |-> TRUE,
       paragraphs |-> << <<DocRun("Chorus", "None")>>, <<DocRun(" ", "None")>> >>],
      [readable |-> TRUE, paragraphs |-> << <<DocRun("Hallelujah!", "True")>> >>] }

\* the weekdays the program is started on: a Monday, a Saturday, a Sunday
Weekdays == {0, 5, 6}

\* main4.py runs generate_bulletin on an order that input_loop let through
SongOrders(r) ==
    IF r = 4 THEN {DEFAULT_SONG_ORDER}
    ELSE {DEFAULT_SONG_ORDER, SubSeq(DEFAULT_SONG_ORDER, 1, 3)}

InitGen ==
    /\ rev \in Revisions
    /\ prs = TemplateDeck
    /\ song_order \in SongOrders(rev)
    /\ gi = 1
    /\ gphase = "start"
    /\ glast = NoLast
    /\ IdleLyric /\ IdleSlide /\ IdleHymn /\ IdleDate /\ IdleInput

\* Presentation(...), the two slide updates (main3.py on), the folder lookup
GenStart ==
    /\ gphase = "start"
    /\ \E weekday \in Weekdays, folderFound \in BOOLEAN :
          /\ prs' = IF rev \in {3, 4}
                    THEN [prs EXCEPT
                            ![0] = update_slide1_right(prs[0], weekday),
                            ![1] = update_order_of_service(rev, prs[1], song_order)]
                    ELSE prs
          /\ gphase' = IF folderFound THEN "loop" ELSE "nofolder"
    /\ UNCHANGED <<rev, song_order, gi, glast, lyricVars, slideVars, hymnVars, dateVars, inputVars>>

\* one entry of SONG_SLIDE_MAP
GenEntry ==
    /\ gphase = "loop"
    /\ gi <= Len(SONG_SLIDE_MAP)
    /\ \E docxFound \in BOOLEAN, docFound \in BOOLEAN, convOK \in BOOLEAN,
          fileDoc \in GenDocuments :
          LET res == GenIteration(rev, prs, song_order, gi,
                                  docxFound, docFound, convOK, fileDoc)
          IN  /\ prs' = res.prs
              /\ glast' = res.last
              /\ gphase' = res.phase
    /\ gi' = gi + 1
    /\ UNCHANGED <<rev, song_order, lyricVars, slideVars, hymnVars, dateVars, inputVars>>

\* the temporary files are removed and the presentation is saved
GenSave ==
    /\ gphase = "loop"
    /\ gi > Len(SONG_SLIDE_MAP)
    /\ gphase' = "saved"
    /\ UNCHANGED <<rev, prs, song_order, gi, glast, lyricVars, slideVars, hymnVars, dateVars, inputVars>>

NextGen == GenStart \/ GenEntry \/ GenSave

SpecGen == InitGen /\ [][NextGen]_vars

(***************************************************************************)
(* Properties of generate_bulletin                                         *)
(***************************************************************************)
\* the iteration just run got as far as extract_text_and_style
LyricsRead == glast.kind \in {"no_lines", "inserted"}

\* every paragraph of d is whitespace only or a structural marker
Degenerate(d) ==
    /\ d.readable
    /\ d.paragraphs # <<>>
    /\ \A i \in 1..Len(d.paragraphs) :
          \/ Strip(ParaText(d.paragraphs[i])) = ""
          \/ StructuralMarker(Strip(ParaText(d.paragraphs[i])))

\* the iteration just run met a failure of its song: no file found, no
\* usable local file, or no line extracted
SongFailed ==
    /\ glast.kind \notin {"none", "short"}
    /\ \/ glast.found = "none"
       \/ glast.kind = "no_file"
       \/ glast.lines = <<>>

\* C6: when extraction returns no lines for a song, the presentation is
\* exactly as it was before that song's iteration: nothing is cleared on the
\* target slide and no container is added.
C6_EmptyExtractionLeavesSlides ==
    (LyricsRead /\ glast.lines = <<>>) => prs = glast.before

C6_Witness ==
    /\ LyricsRead
    /\ glast.lines = <<>>
    /\ glast.doc.readable
    /\ glast.entry > 1
    /\ prs = glast.before
    /\ prs # TemplateDeck

\* C7: a document whose paragraphs are all whitespace or structural markers
\* is treated like a failed extraction: no line is extracted from it and
\* the presentation is left as it was.
C7_DegenerateDocumentSkipped ==
    (LyricsRead /\ Degenerate(glast.doc)) =>
        (glast.lines = <<>> /\ prs = glast.before)

\* C8: a failure for one song only skips that song: the run goes on with the
\* next entry and is never ended by it.
C8_FailureSkipsOnlyThatSong ==
    SongFailed => (gphase \in {"loop", "saved"} /\ gi = glast.entry + 1)

(***************************************************************************)
(* Order of the rendered lines (SpecLyric)                                 *)
(***************************************************************************)
\* the line each run after the title paragraph renders: its text without
\* the line break main.py joins the lines of a verse with
RenderedLines(r, b) ==
    LET rs == RunsOf(AfterTitle(r, b)) IN [k \in 1..Len(rs) |-> RStrip(rs[k].text)]

\* C11: the texts rendered after the title paragraph are the non-blank lines
\* of the stream (without a duplicate first title line), in the same order,
\* none dropped or doubled, and every footer run comes after every body run.
C11_NoReorderingOrLoss ==
    lphase = "composed" =>
        LET content == DropDuplicateTitle(lines, title)
            rs      == RunsOf(AfterTitle(rev, box))
        IN  /\ RenderedLines(rev, box) = LineTexts(NonBlankLines(content))
            /\ \A i \in 1..Len(rs) : \A j \in i..Len(rs) :
                  (rev # 4 /\ rs[i].size = FootnoteSize(rev))
                      => rs[j].size = FootnoteSize(rev)
            /\ Len(FooterParagraphs(rev, box)) = Len(parts.footer)

C11_Witness ==
    /\ lphase = "composed" /\ rev = 3
    /\ Len(RenderedLines(rev, box)) = 2
    /\ Len(lines) = 3
    /\ Len(FooterParagraphs(rev, box)) = 1
    /\ \E k \in 1..Len(lines) : lines[k].text = ""

(***************************************************************************)
(* The lines extract_text_and_style returns (SpecLyric)                    *)
(***************************************************************************)
\* the blank-separator marker ("", False)
BlankMarker == Line("", "False")

\* C12: every line extract_text_and_style returns is the blank-separator
\* marker ("", False) or has a non-empty text equal to its trimmed form;
\* no line has a whitespace-only text.
C12_NoWhitespaceOnlyLine ==
    lphase # "doc" =>
        \A i \in 1..Len(lines) :
            \/ lines[i] = BlankMarker
            \/ lines[i].text # "" /\ Strip(lines[i].text) = lines[i].text

C12_Witness ==
    /\ lphase = "extracted"
    /\ \E i \in 1..Len(doc.paragraphs) : ParaText(doc.paragraphs[i]) = "  "
    /\ \E i \in 1..Len(doc.paragraphs) : doc.paragraphs[i][1].text = "I once was "
    /\ \E i \in 1..Len(lines) : lines[i] = BlankMarker
    /\ \E i \in 1..Len(lines) : lines[i].text = "I once was"

(***************************************************************************)
(* SpecVerse: main.py and main2.py composing streams of lines that end in  *)
(* every kind of punctuation the verse and footer rules look at            *)
(***************************************************************************)
MaxVerseLines == 3

\* one paragraph of one run per line
VersePool ==
    { <<DocRun("AMAZING GRACE", "False")>>,
      <<DocRun("Refrain:", "None")>>,
      <<DocRun("Glory;", "None")>>,
      <<DocRun("Praise Him", "None")>>,
      <<DocRun("Hallelujah!", "True")>>,
      <<DocRun("Was blind, but now I see.", "None")>>,
      <<DocRun("Who is like the Lord?", "None")>>,
      <<DocRun("I once was lost", "False")>>,
      <<DocRun("Psalm 23", "None")>>,
      <<DocRun("Words by John Newton, 1779", "False")>> }

VerseDocuments ==
    {[readable |-> TRUE, paragraphs |-> ps] : ps \in SeqsUpTo(VersePool, MaxVerseLines)}

InitVerse ==
    /\ rev \in {1, 2}
    /\ doc \in VerseDocuments
    /\ title \in Titles
    /\ lines = <<>> /\ box = <<>> /\ parts = NoParts /\ lphase = "doc"
    /\ IdleSlide /\ IdleGen /\ IdleHymn /\ IdleDate /\ IdleInput

SpecVerse == InitVerse /\ [][NextLyric]_vars

\* the number of lines in the first k groups
RECURSIVE GroupEnd(_, _)
GroupEnd(groups, k) ==
    IF k = 0 THEN 0 ELSE Len(groups[k]) + GroupEnd(groups, k - 1)

\* a line of at most two words that ends in neither ':' nor ';'
ShortLine(t) ==
    /\ WordCount(t) <= 2
    /\ ~EndsWith(Strip(t), ":")
    /\ ~EndsWith(Strip(t), ";")

\* a line after which a verse boundary is declared wherever it stands
VerseBoundary(t) ==
    \/ \E c \in {".", "!", "?"} : EndsWith(Strip(t), c)
    \/ ShortLine(t)

\* C13: in main.py the body paragraphs hold the body lines in order, in
\* consecutive non-empty groups, and a group ends after a line exactly when
\* the line is the last body line, ends in '.', '!' or '?', or has at most
\* two words and ends in neither ':' nor ';'.
C13_VerseSegmentation ==
    (lphase = "composed" /\ rev = 1) =>
        LET groups == VerseGroups(rev, box)
            body   == parts.body
        IN  /\ Flatten(groups) = LineTexts(body)
            /\ \A k \in 1..Len(groups) : groups[k] # <<>>
            /\ {GroupEnd(groups, k) : k \in 1..Len(groups)}
                   = {i \in 1..Len(body) :
                          i = Len(body) \/ VerseBoundary(body[i].text)}

C13_Witness ==
    /\ lphase = "composed" /\ rev = 1
    /\ VerseGroups(rev, box) = << <<"Refrain:", "Praise Him">>, <<"I once was lost">> >>

\* paragraph k of ps is a verse paragraph of main.py
IsVersePara(ps, k) == ps[k] # <<>> /\ ps[k][1].size = BODY_PT_1

\* the line that ends the verse paragraph q
TerminatingLine(q) == RStrip(Last(q).text)

\* C14: in main.py an empty spacing paragraph follows a verse paragraph
\* exactly when the line ending the group ends in '!' or is a short line,
\* unless the group is the last one and a footer line exists; an empty
\* paragraph stands nowhere else.
C14_BlankSeparatorRule ==
    (lphase = "composed" /\ rev = 1) =>
        LET ps == AfterTitle(rev, box)
        IN  \A k \in 1..Len(ps) :
               /\ IsVersePara(ps, k) =>
                     ((k < Len(ps) /\ ps[k + 1] = <<>>)
                        <=> /\ \/ EndsWith(TerminatingLine(ps[k]), "!")
                               \/ ShortLine(TerminatingLine(ps[k]))
                            /\ ~ /\ \A j \in (k + 1)..Len(ps) : ~IsVersePara(ps, j)
                                 /\ parts.footer # <<>>)
               /\ ps[k] = <<>> => (k > 1 /\ IsVersePara(ps, k - 1))

\* a line "Hallelujah!" in mid-stream ends its verse and is followed by a
\* spacing paragraph
C14_Witness ==
    /\ lphase = "composed" /\ rev = 1
    /\ LET ps == AfterTitle(rev, box)
       IN  /\ Len(ps) = 3
           /\ RunTexts(ps[1]) = <<"I once was lost", "Hallelujah!">>
           /\ ps[2] = <<>>
           /\ RunTexts(ps[3]) = <<"Who is like the Lord?">>

\* the texts of the runs in the body size, without joining line breaks
BodyLines(r, b) ==
    LET rs == SelectSeq(RunsOf(AfterTitle(r, b)), LAMBDA x : x.size = BodySize(r))
    IN  [k \in 1..Len(rs) |-> RStrip(rs[k].text)]

\* C15: in main.py and main2.py, after duplicate-title removal, the last
\* line is the footer exactly when its text holds a digit and a comma or a
\* period; no other line is ever footer; the footer is the last paragraph,
\* in the footnote size, and the body holds the other lines.
C15_SingleLineFooter ==
    (lphase = "composed" /\ rev \in {1, 2}) =>
        LET content == DropDuplicateTitle(lines, title)
            t       == Last(content).text
            fs      == FooterParagraphs(rev, box)
            isFoot  == /\ \E i \in 1..Len(t) : IsDigit(Ch(t, i))
                       /\ \E i \in 1..Len(t) : Ch(t, i) \in {",", "."}
        IN  /\ Len(fs) <= 1
            /\ Len(fs) = 1 <=> isFoot
            /\ isFoot =>
                  /\ Last(box) = <<TextRun(t, FootnoteSize(rev), "None", Last(content).italic)>>
                  /\ BodyLines(rev, box) = LineTexts(Front(content))
            /\ ~isFoot => BodyLines(rev, box) = LineTexts(content)

C15_Witness ==
    /\ lphase = "composed" /\ rev = 2
    /\ LineTexts(lines) = <<"AMAZING GRACE", "Psalm 23", "Words by John Newton, 1779">>
    /\ BodyLines(rev, box) = <<"Psalm 23">>
    /\ Len(FooterParagraphs(rev, box)) = 1

(***************************************************************************)
(* SpecScan: main3.py composing streams of blank lines, attribution lines  *)
(* of every kind, and italic and plain sung lines                          *)
(***************************************************************************)
MaxScanLines == 3

ScanPool ==
    { <<DocRun("  ", "None")>>,
      <<DocRun("@ Hope Pub", "None")>>,
      <<DocRun("ccli 12", "None")>>,
      <<DocRun("Public Domain", "None")>>,
      <<DocRun("Words and Music", "None")>>,
      <<DocRun("Hymn 1779", "None")>>,
      <<DocRun("translated", "None")>>,
      <<DocRun("Stand by me", "False")>>,
      <<DocRun("Standby", "False")>>,
      <<DocRun("Sing on", "True")>> }

ScanDocuments ==
    {[readable |-> TRUE, paragraphs |-> ps] : ps \in SeqsUpTo(ScanPool, MaxScanLines)}

InitScan ==
    /\ rev = 3
    /\ doc \in ScanDocuments
    /\ title \in Titles
    /\ lines = <<>> /\ box = <<>> /\ parts = NoParts /\ lphase = "doc"
    /\ IdleSlide /\ IdleGen /\ IdleHymn /\ IdleDate /\ IdleInput

SpecScan == InitScan /\ [][NextLyric]_vars

\* the last non-blank line of ls that does not match the attribution
\* pattern: its index, 0 if there is none
ScanStop(ls) ==
    LET stops == {i \in 1..Len(ls) :
                     Strip(ls[i].text) # "" /\ ~AttributionPattern(Strip(ls[i].text))}
    IN  IF stops = {} THEN 0 ELSE CHOOSE i \in stops : \A j \in stops : j <= i

\* C16: in main3.py the footer is the trailing run of non-blank lines that
\* all match the attribution pattern, in their original order; the body is
\* the stream up to the last non-blank line that does not match; the blank
\* lines after that line are in neither, and also not rendered.
C16_BackwardFooterScan ==
    (lphase = "composed" /\ rev = 3) =>
        LET content == DropDuplicateTitle(lines, title)
            m       == ScanStop(content)
            ps      == AfterTitle(rev, box)
            nf      == Len(parts.footer)
        IN  /\ parts.body = SubSeq(content, 1, m)
            /\ parts.footer = NonBlankLines(SubSeq(content, m + 1, Len(content)))
            /\ \A k \in 1..nf :
                  ps[Len(ps) - nf + k]
                      = <<TextRun(parts.footer[k].text, FOOTNOTE_SIZE, "None",
                                  parts.footer[k].italic)>>
            /\ Len(ps) > nf => ps[Len(ps) - nf] # <<>>
            /\ \A k \in 1..(Len(ps) - nf) : ps[k] = <<>> \/ ps[k][1].size = FONT_SIZE

C16_Witness ==
    /\ lphase = "composed" /\ rev = 3
    /\ LineTexts(lines) = <<"Standby", "", "Stand by me">>
    /\ LineTexts(parts.body) = <<"Standby">>
    /\ LineTexts(parts.footer) = <<"Stand by me">>
    /\ Len(AfterTitle(rev, box)) = 2

\* line i of body is not blank
NonBlankAt(body, i) == Strip(body[i].text) # ""

\* line i of body is a non-italic line whose nearest non-blank line before
\* it is italic
AfterEmphasis(body, i) ==
    /\ NonBlankAt(body, i)
    /\ body[i].italic = "False"
    /\ \E j \in 1..(i - 1) :
          /\ NonBlankAt(body, j)
          /\ body[j].italic = "True"
          /\ \A k \in (j + 1)..(i - 1) : ~NonBlankAt(body, k)

\* where the paragraph of body line i stands among the body paragraphs
BodyParaIndex(body, i) == i + Cardinality({j \in 1..i : AfterEmphasis(body, j)})

\* C17: in main3.py every body line has its own paragraph, empty for a
\* blank marker, and one more empty paragraph stands right before the
\* paragraph of a line exactly when the line is non-italic and the nearest
\* non-blank body line before it is italic; blank markers between the two
\* do not undo that, and no other paragraph is added.
C17_EmphasisTransitionSpacing ==
    (lphase = "composed" /\ rev = 3) =>
        LET body == parts.body
            ps   == AfterTitle(rev, box)
            n    == Len(ps) - Len(parts.footer)
        IN  /\ n = Len(body) + Cardinality({j \in 1..Len(body) : AfterEmphasis(body, j)})
            /\ \A i \in 1..Len(body) :
                  LET k == BodyParaIndex(body, i)
                  IN  /\ ps[k] = IF NonBlankAt(body, i)
                                 THEN <<TextRun(body[i].text, FONT_SIZE, "None", body[i].italic)>>
                                 ELSE <<>>
                      /\ AfterEmphasis(body, i) => ps[k - 1] = <<>>

C17_Witness ==
    /\ lphase = "composed" /\ rev = 3
    /\ lines = <<Line("Sing on", "True"), Line("", "False"), Line("Standby", "False")>>
    /\ Len(AfterTitle(rev, box)) = 4
    /\ AfterTitle(rev, box)[2] = <<>>
    /\ AfterTitle(rev, box)[3] = <<>>

(***************************************************************************)
(* Emphasis of the extracted lines (SpecLyric)                             *)
(***************************************************************************)
\* the line l is a piece of the text of run x and has x's emphasis: true
\* when x.italic is True, false when it is False or unset
FromRun(l, x) == Contains(x.text, l.text) /\ l.italic = IsTrue(x.italic)

\* C18: every line extract_text_and_style returns, the blank marker aside,
\* has a boolean emphasis and is a piece of one run of the document whose
\* italic is True exactly when the line's emphasis is true.
C18_EmphasisPerRun ==
    lphase # "doc" =>
        \A i \in 1..Len(lines) :
            /\ lines[i].italic \in {"True", "False"}
            /\ lines[i] # BlankMarker =>
                  \E p \in 1..Len(doc.paragraphs) :
                      \E k \in 1..Len(doc.paragraphs[p]) :
                          FromRun(lines[i], doc.paragraphs[p][k])

\* the place of position ij among the HYMN paragraphs when they are read
\* from the top of the slide down: by the top of the shape, shapes of equal
\* top in slide order, then by paragraph
TopRank(shapes, ij) ==
    1 + Cardinality({kl \in HymnPositions(shapes) :
            \/ shapes[kl[1]].top < shapes[ij[1]].top
            \/ shapes[kl[1]].top = shapes[ij[1]].top /\ kl[1] < ij[1]
            \/ kl[1] = ij[1] /\ kl[2] < ij[2]})

\* C19: for every arrangement of the shapes, the k-th title goes into the
\* k-th HYMN paragraph counted from the top of the slide down (by the top
\* coordinate of the shape, then by paragraph within the shape).
C19_HymnTitlesTopToBottom ==
    hphase = "done" =>
        \A ij \in HymnPositions(hslide0) :
            TopRank(hslide0, ij) <= Len(htitles) =>
                IsHymnEntry(ShapeParaText(hslide[ij[1]].paras[ij[2]]),
                            WithoutSubtitle(htitles[TopRank(hslide0, ij)]))

\* the HYMN paragraphs update_order_of_service has written a title into
ReplacedPositions ==
    {ij \in HymnPositions(hslide0) : HymnRank(hslide0, ij) <= Len(htitles)}

\* the title written at position ij, in its quotation marks
QuotedTitleAt(ij) ==
    LEFT_QUOTE \o WithoutSubtitle(htitles[HymnRank(hslide0, ij)]) \o RIGHT_QUOTE

\* C20, as claimed: for every title the paragraph update_order_of_service
\* writes has a text of 59 characters.
C20_FixedWidthEntries ==
    hphase = "done" =>
        \A ij \in ReplacedPositions :
            Len(ShapeParaText(hslide[ij[1]].paras[ij[2]])) = total_width - 1

\* C20, amended: the text has 59 characters when the quoted title has at
\* most 54; a longer quoted title follows "HYMN" after one space and the
\* text is 5 characters longer than the quoted title.
C20_FixedWidthUnlessLong ==
    hphase = "done" =>
        \A ij \in ReplacedPositions :
            LET text == ShapeParaText(hslide[ij[1]].paras[ij[2]])
                q    == Len(QuotedTitleAt(ij))
            IN  /\ q <= total_width - 6 => Len(text) = total_width - 1
                /\ q > total_width - 6 => Len(text) = q + 5
                /\ EndsWith(text, QuotedTitleAt(ij))

C20_Witness ==
    /\ hphase = "done"
    /\ \E ij \in ReplacedPositions, kl \in ReplacedPositions :
          /\ Len(QuotedTitleAt(ij)) < Len(QuotedTitleAt(kl))
          /\ Len(QuotedTitleAt(kl)) <= total_width - 6
          /\ Len(ShapeParaText(hslide[ij[1]].paras[ij[2]])) = total_width - 1
          /\ Len(ShapeParaText(hslide[kl[1]].paras[kl[2]])) = total_width - 1

(***************************************************************************)
(* update_slide1_right step by step: the clock is read, the day-advancing  *)
(* loop runs one iteration at a time, and the paragraphs are rewritten     *)
(* once the loop has left.                                                 *)
(***************************************************************************)
MaxDateShapes == 2

DateShapePool ==
    { Shape(Inches(50), Inches(10), TRUE,
            <<(<<TextRun("Welcome", FONT_SIZE, "None", "None")>>),
              (<<TextRun("Corporate Worship Service: May 4, 2025", 0, "True", "None")>>)>>),
      Shape(Inches(50), Inches(30), TRUE,
            <<(<<TextRun("  Corporate Worship ", 0, "None", "None"),
                 TextRun("Service:", 0, "None", "None")>>),
              (<<TextRun("Corporate Worship Service: again", 0, "None", "None")>>)>>),
      Shape(Inches(5), Inches(10), TRUE,
            <<(<<TextRun("Our Corporate Worship Service:", 0, "None", "None")>>)>>),
      Shape(Inches(5), Inches(40), FALSE, <<>>) }

InitDate ==
    /\ rev \in {3, 4}
    /\ dslide \in SeqsUpTo(DateShapePool, MaxDateShapes)
    /\ dslide0 = dslide
    /\ today \in 0..6
    /\ upcoming_sunday = 0
    /\ dphase = "start"
    /\ IdleLyric /\ IdleSlide /\ IdleGen /\ IdleHymn /\ IdleInput

\* upcoming_sunday = datetime.now()
DateNow ==
    /\ dphase = "start"
    /\ upcoming_sunday' = 0
    /\ dphase' = "advance"
    /\ UNCHANGED <<rev, dslide, dslide0, today, lyricVars, slideVars, genVars, hymnVars, inputVars>>

\* one iteration of the loop: upcoming_sunday += timedelta(days=1)
DateAdvance ==
    /\ dphase = "advance"
    /\ NotSunday((today + upcoming_sunday) % 7)
    /\ upcoming_sunday' = upcoming_sunday + 1
    /\ UNCHANGED <<rev, dslide, dslide0, today, dphase, lyricVars, slideVars, genVars, hymnVars, inputVars>>

\* the loop is left and the paragraphs of slide 0 are rewritten
DateWrite ==
    /\ dphase = "advance"
    /\ ~NotSunday((today + upcoming_sunday) % 7)
    /\ dslide' = WriteDate(dslide, upcoming_sunday)
    /\ dphase' = "done"
    /\ UNCHANGED <<rev, dslide0, today, upcoming_sunday, lyricVars, slideVars, genVars, hymnVars, inputVars>>

NextDate == DateNow \/ DateAdvance \/ DateWrite

\* the function runs on: nothing stops it between two statements
SpecDate == InitDate /\ [][NextDate]_vars /\ WF_vars(NextDate)

\* the (shape, paragraph) positions of slide 0 whose paragraph was replaced
DateReplaced ==
    UNION {{<<i, j>> : j \in {k \in 1..Len(dslide0[i].paras) :
                                  dslide[i].paras[k] # dslide0[i].paras[k]}} :
           i \in 1..Len(dslide0)}

SundayFound ==
    /\ upcoming_sunday \in 0..6
    /\ \A k \in 0..(upcoming_sunday - 1) : (today + k) % 7 # 6
    /\ dphase = "done" =>
          /\ (today + upcoming_sunday) % 7 = 6
          /\ today = 6 => upcoming_sunday = 0
          /\ Len(dslide) = Len(dslide0)
          /\ \A i \in 1..Len(dslide) : Len(dslide[i].paras) = Len(dslide0[i].paras)
          /\ \A p \in DateReplaced :
                /\ StartsWith(Strip(ShapeParaText(dslide0[p[1]].paras[p[2]])),
                              target_text_prefix)
                /\ ShapeParaText(dslide[p[1]].paras[p[2]])
                      = target_text_prefix \o " " \o DateStr(upcoming_sunday)

\* C21: whatever the weekday of today, the day-advancing loop is left after at
\* most 6 increments with upcoming_sunday on the first Sunday that is not
\* before today (today itself when today is a Sunday), the function comes to
\* its end, and every paragraph it replaced began with
\* "Corporate Worship Service:" and now reads that label followed by that date.
C21_UpcomingSunday == []SundayFound /\ <>(dphase = "done")

\* a Monday run: six increments, and a date paragraph was replaced
C21_Witness ==
    /\ dphase = "done"
    /\ today = 0
    /\ upcoming_sunday = 6
    /\ DateReplaced # {}

\* C22: in generate_bulletin a song whose "<name>.docx" lookup succeeded is
\* downloaded under the ".docx" name and convert_doc_to_docx is not called
\* for it; the converter is called only for a song found as "<name>.doc".
C22_ConvertOnlyLegacyFiles ==
    /\ glast.found = "docx" => glast.ext = ".docx" /\ ~glast.converted
    /\ glast.converted => glast.found = "doc"

(***************************************************************************)
(* input_loop (main4.py).  The loop is followed from one wait for the user *)
(* to the next: at "top" an iteration begins, at "missing" the loop waits  *)
(* for the answer to "re-enter just the missing songs?".                   *)
(***************************************************************************)
\* a validation that never looks up the last of the songs it is given
RECURSIVE validate_song_order_SkipLast(_, _, _)
validate_song_order_SkipLast(songs, docxHit, docHit) ==
    IF Len(songs) <= 1 THEN <<>>
    ELSE (IF ~Head(docxHit) /\ ~Head(docHit) THEN <<Head(songs)>> ELSE <<>>)
         \o validate_song_order_SkipLast(Tail(songs), Tail(docxHit), Tail(docHit))

\* validate_song_order: docxHit[k] and docHit[k] tell whether find_file_id
\* returned an id for the ".docx" and for the ".doc" name of the k-th song
RECURSIVE validate_song_order(_, _, _)
validate_song_order(songs, docxHit, docHit) ==
    IF songs = <<>> THEN <<>>
    ELSE (IF ~Head(docxHit) /\ ~Head(docHit) THEN <<Head(songs)>> ELSE <<>>)
         \o validate_song_order(Tail(songs), Tail(docxHit), Tail(docHit))

\* max(entry['song_index'] for entry in SONG_SLIDE_MAP)
max_required_index ==
    CHOOSE m \in {SONG_SLIDE_MAP[i].song_index : i \in 1..Len(SONG_SLIDE_MAP)} :
        \A i \in 1..Len(SONG_SLIDE_MAP) : SONG_SLIDE_MAP[i].song_index <= m

\* [order[entry['song_index']] for entry in SONG_SLIDE_MAP]
used_songs(ord) ==
    [i \in 1..Len(SONG_SLIDE_MAP) |-> ord[SONG_SLIDE_MAP[i].song_index + 1]]

\* the re-entry loop: for each missing song in turn, every entry of the order
\* equal to it becomes the name typed for it
RECURSIVE ReEnter(_, _, _)
ReEnter(ord, miss, news) ==
    IF miss = <<>> THEN ord
    ELSE ReEnter([k \in 1..Len(ord) |-> IF ord[k] = Head(miss) THEN Head(news) ELSE ord[k]],
                 Tail(miss), Tail(news))

\* what read_song_input can return: nothing, lists that are too short (the
\* second by one song), the default order, and six songs with a repeated one
EnteredOrders ==
    { <<>>,
      <<"Christ Arose">>,
      SubSeq(DEFAULT_SONG_ORDER, 1, 4),
      DEFAULT_SONG_ORDER,
      <<"Christ Arose", "Christ Arose", "Amazing Grace", "Because He Lives",
        "Amazing Grace", "Rock of Ages">> }

\* what the user can type for a missing song; input(...).strip() may be empty
ReEnteredNames == {"Amazing Grace", ""}

InitInput ==
    /\ rev = 4
    /\ order = <<>>
    /\ missing = <<>>
    /\ drive = <<>>
    /\ iphase = "top"
    /\ IdleLyric /\ IdleSlide /\ IdleGen /\ IdleHymn /\ IdleDate

\* if not order: order = read_song_input(); an empty answer starts over
ReadOrder ==
    /\ iphase = "top"
    /\ order = <<>>
    /\ order' \in EnteredOrders
    /\ UNCHANGED <<rev, missing, drive, iphase, lyricVars, slideVars, genVars, hymnVars, dateVars>>

\* if len(order) <= max_required_index: order = []; continue
DiscardShort ==
    /\ iphase = "top"
    /\ order # <<>>
    /\ Len(order) <= max_required_index
    /\ order' = <<>>
    /\ UNCHANGED <<rev, missing, drive, iphase, lyricVars, slideVars, genVars, hymnVars, dateVars>>

\* missing = validate_song_order(used_songs, folder_id); if not missing:
\* return order; otherwise the loop asks what to do about the missing songs
Validate ==
    /\ iphase = "top"
    /\ order # <<>>
    /\ Len(order) > max_required_index
    /\ \E docxHit \in [1..Len(SONG_SLIDE_MAP) -> BOOLEAN],
          docHit  \in [1..Len(SONG_SLIDE_MAP) -> BOOLEAN] :
          /\ missing' = validate_song_order(used_songs(order), docxHit, docHit)
          /\ drive' = [k \in 1..Len(SONG_SLIDE_MAP) |->
                          [song  |-> used_songs(order)[k],
                           found |-> FoundKind(docxHit[k], docHit[k])]]
    /\ iphase' = IF missing' = <<>> THEN "returned" ELSE "missing"
    /\ UNCHANGED <<rev, order, lyricVars, slideVars, genVars, hymnVars, dateVars>>

\* choice == 'n': order = [].  missing is assigned anew before it is read
\* again, so it and the record of the lookups are emptied here
StartOver ==
    /\ iphase = "missing"
    /\ order' = <<>>
    /\ missing' = <<>>
    /\ drive' = <<>>
    /\ iphase' = "top"
    /\ UNCHANGED <<rev, lyricVars, slideVars, genVars, hymnVars, dateVars>>

\* any other choice: a name is typed for each missing song
ReEnterMissing ==
    /\ iphase = "missing"
    /\ \E news \in [1..Len(missing) -> ReEnteredNames] :
          order' = ReEnter(order, missing, news)
    /\ missing' = <<>>
    /\ drive' = <<>>
    /\ iphase' = "top"
    /\ UNCHANGED <<rev, lyricVars, slideVars, genVars, hymnVars, dateVars>>

NextInput == ReadOrder \/ DiscardShort \/ Validate \/ StartOver \/ ReEnterMissing

SpecInput == InitInput /\ [][NextInput]_vars

\* the order input_loop returns: long enough, and each song a slide uses
\* was found by the lookups of the validation run that let it through
ReturnedValidated ==
    iphase = "returned" =>
        /\ Len(order) > max_required_index
        /\ Len(order) >= 5
        /\ missing = <<>>
        /\ Len(drive) = Len(SONG_SLIDE_MAP)
        /\ \A i \in 1..Len(SONG_SLIDE_MAP) :
              /\ drive[i].song = order[SONG_SLIDE_MAP[i].song_index + 1]
              /\ drive[i].found \in {"docx", "doc"}

\* a step of input_loop: a too-short list is dropped and asked for again,
\* and the loop returns only out of a validation of the order it returns
ReturnStep ==
    /\ (iphase = "top" /\ order # <<>> /\ Len(order) <= max_required_index)
          => (order' = <<>> /\ iphase' = "top")
    /\ (iphase' = "returned" /\ iphase # "returned")
          => (iphase = "top" /\ order' = order /\ Len(drive') = Len(SONG_SLIDE_MAP))
    /\ iphase = "missing" => (iphase' = "top" /\ drive' = <<>>)

\* C23: input_loop returns an order only when it has more entries than the
\* largest song_index of SONG_SLIDE_MAP (at least 5) and every song that
\* SONG_SLIDE_MAP puts on a slide was found, as .docx or .doc, by the
\* validation run just before the return; a too-short list is discarded and
\* asked for again, and after a re-entry of missing songs the loop validates
\* again before it can return.
C23_ReturnsOnlyValidatedOrder == []ReturnedValidated /\ [][ReturnStep]_vars

\* an order returned after a re-entry of missing songs, one of its songs found
\* as a legacy .doc
C23_Witness ==
    /\ iphase = "returned"
    /\ order \notin EnteredOrders
    /\ \E k \in 1..Len(order) : order[k] \in ReEnteredNames
    /\ \E i \in 1..Len(drive) : drive[i].found = "doc"

====
